---------------------------- MODULE Spec2Model ----------------------------
(***************************************************************************)
(* Appointment booking: the slot-booking / conflict-resolution engine and  *)
(* the appointment lifecycle, as implemented by app/api/appointments.py    *)
(* and app/services/appointment_service.py.                                *)
(*                                                                         *)
(* Strings that the code inspects character by character (time slots) are  *)
(* sequences of one-character strings.  Dates are proleptic ordinals as    *)
(* returned by date.toordinal() (ordinal 1 is a Monday).  An optional      *)
(* request field is <<"unset">>, <<"none">> (explicit null) or             *)
(* <<"set", v>>.  A NULL column is the string "NULL".                      *)
(***************************************************************************)
EXTENDS Integers, Sequences, FiniteSets, TLC

VARIABLES
    appointments,   \* the appointments table: a sequence of rows, id = index
    doctors,        \* the doctors table: doctor id -> [user_id, available_timeslots]
    users,          \* the users table: user id -> [user_type, is_active]
    inflight,       \* create requests that passed their checks and have not committed
    last            \* the last request handled and its response

vars == <<appointments, doctors, users, inflight, last>>

----------------------------------------------------------------------------
(* Bounds of the model *)

MaxAppts == 2       \* rows the appointments table may hold
MaxAhead == 1       \* how many days after today a request may name
MaxRequests == 2    \* create requests that may be in flight together

----------------------------------------------------------------------------
(* Time-slot strings *)

T1000 == <<"1","0",":","0","0","-","1","1",":","0","0">>   \* "10:00-11:00"
T1030 == <<"1","0",":","3","0","-","1","1",":","3","0">>   \* "10:30-11:30"
T1200 == <<"1","2",":","0","0","-","1","3",":","0","0">>   \* "12:00-13:00"
Padded(s) == <<" ">> \o s \o <<" ">>
EmptyStr == << >>

NULL == "NULL"
Unset == <<"unset">>
None == <<"none">>
Some(v) == <<"set", v>>
IsSet(f) == f[1] # "unset"
IsNone(f) == f[1] = "none"
HasValue(f) == f[1] = "set"
Val(f) == f[2]

\* str.strip(): drop leading and trailing whitespace
RECURSIVE LStrip(_)
LStrip(s) == IF s # << >> /\ Head(s) = " " THEN LStrip(Tail(s)) ELSE s

RECURSIVE RStrip(_)
RStrip(s) == IF s # << >> /\ s[Len(s)] = " " THEN RStrip(SubSeq(s, 1, Len(s) - 1)) ELSE s

Strip(s) == RStrip(LStrip(s))

Range(s) == {s[i] : i \in DOMAIN s}

----------------------------------------------------------------------------
(* Users, doctors, dates *)

PATIENT == "PATIENT"
DOCTOR == "DOCTOR"
ADMIN == "ADMIN"

\* the seeded users; "u3" is a deactivated doctor
InitUsers ==
    [u \in {"p1", "p2", "u1", "u2", "u3", "admin"} |->
        [user_type |-> IF u \in {"p1", "p2"} THEN PATIENT
                       ELSE IF u = "admin" THEN ADMIN ELSE DOCTOR,
         is_active |-> u # "u3"]]

\* get_current_user admits the users that exist and are active
ActiveUsers == {u \in DOMAIN users : users[u].is_active}

\* the active users of each type
Patients == {u \in ActiveUsers : users[u].user_type = PATIENT}
DoctorUsers == {u \in ActiveUsers : users[u].user_type = DOCTOR}
Admins == {u \in ActiveUsers : users[u].user_type = ADMIN}

\* get_current_doctor_or_admin admitting every authenticated user
GetCurrentDoctorOrAdmin_AnyUser(actor) == actor \in ActiveUsers

\* get_current_doctor_or_admin: user_type in [DOCTOR, ADMIN]
GetCurrentDoctorOrAdmin(actor) == actor \in DoctorUsers \cup Admins

\* get_current_patient: user_type == PATIENT
GetCurrentPatient(actor) == actor \in Patients

PENDING == "pending"
CONFIRMED == "confirmed"
CANCELLED == "cancelled"
COMPLETED == "completed"
AppointmentStatus == {PENDING, CONFIRMED, CANCELLED, COMPLETED}
ActiveStatuses == {PENDING, CONFIRMED}

Today == 8          \* date.today(): a Monday

DayNames == <<"monday", "tuesday", "wednesday", "thursday", "friday", "saturday", "sunday">>

\* d.strftime('%A').lower()
WeekdayName(d) == DayNames[((d + 6) % 7) + 1]

\* the comparison with today off by one day
IsPastDate_OffByOne(d) == d < Today - 1

\* v < date.today()
IsPastDate(d) == d < Today

InitDoctors ==
    (1 :> [user_id |-> "u1",
           available_timeslots |-> ("monday" :> <<T1000, T1030>> @@ "tuesday" :> <<T1000>>)]) @@
    (2 :> [user_id |-> "u2",
           available_timeslots |-> ("tuesday" :> <<T1030>>)]) @@
    (3 :> [user_id |-> "u3",
           available_timeslots |-> ("monday" :> <<T1000>>)])

\* the doctor lookup without its is_active filter
ActiveDoctorExists_IgnoringActive(docs, doctor_id) == doctor_id \in DOMAIN docs

\* db.query(Doctor).join(User).filter(Doctor.id == doctor_id, User.is_active == True).first()
ActiveDoctorExists(docs, doctor_id) ==
    doctor_id \in DOMAIN docs /\ docs[doctor_id].user_id \in ActiveUsers

\* doctor.available_timeslots.get(appointment_day, [])
AvailableSlots(docs, doctor_id, d) ==
    LET t == docs[doctor_id].available_timeslots
    IN  IF WeekdayName(d) \in DOMAIN t THEN t[WeekdayName(d)] ELSE << >>

\* appointment_time in available_slots
SlotOffered(docs, doctor_id, d, tm) == tm \in Range(AvailableSlots(docs, doctor_id, d))

\* the conflict query without its status filter
CheckTimeSlotConflict_AnyStatus(apps, doctor_id, d, tm, exclude) ==
    {i \in DOMAIN apps :
        /\ apps[i].doctor_id = doctor_id
        /\ apps[i].appointment_date = d
        /\ apps[i].appointment_time = tm
        /\ i # exclude}

\* the rows matched by the conflict query; exclude = 0 stands for "no exclusion"
CheckTimeSlotConflict(apps, doctor_id, d, tm, exclude) ==
    {i \in DOMAIN apps :
        /\ apps[i].doctor_id = doctor_id
        /\ apps[i].appointment_date = d
        /\ apps[i].appointment_time = tm
        /\ apps[i].status \in ActiveStatuses
        /\ i # exclude}

----------------------------------------------------------------------------
(* Schema validation (pydantic validators run before the handler body) *)

\* AppointmentCreate: validate_doctor_id, validate_date_simple and validate_time_simple
CreateValid(req) ==
    /\ req.doctor_id > 0
    /\ ~IsPastDate(req.appointment_date)
    /\ Strip(req.appointment_time) # EmptyStr

\* AppointmentUpdate.validate_date_simple
UpdateValid(upd) ==
    HasValue(upd.appointment_date) => ~IsPastDate(Val(upd.appointment_date))

----------------------------------------------------------------------------
(* Slot checks shared by create and update *)

\* offering check, then conflict check
SlotError(apps, docs, doctor_id, d, tm, exclude) ==
    IF ~SlotOffered(docs, doctor_id, d, tm) THEN "TimeSlotUnavailable"
    ELSE IF CheckTimeSlotConflict(apps, doctor_id, d, tm, exclude) # {} THEN "TimeSlotConflict"
    ELSE "ok"

\* the checks of create_appointment that precede the insert
CreateCheck(apps, docs, req) ==
    IF ~CreateValid(req) THEN "ValidationError"
    ELSE IF ~ActiveDoctorExists(docs, req.doctor_id) THEN "DoctorNotFound"
    ELSE SlotError(apps, docs, req.doctor_id, req.appointment_date,
                   Strip(req.appointment_time), 0)

\* Appointment(...): status takes the column default
NewAppointment(patient, req) ==
    [patient_id |-> patient,
     doctor_id |-> req.doctor_id,
     appointment_date |-> req.appointment_date,
     appointment_time |-> Strip(req.appointment_time),
     status |-> PENDING,
     notes |-> req.notes,
     symptoms |-> req.symptoms,
     doctor_notes |-> NULL,
     prescription |-> NULL]

----------------------------------------------------------------------------
(* update: the patient's edit of a pending appointment *)

\* a request field is truthy: a date is whenever it is not None; a time-slot string
\* and a text are unless None or empty
TruthyDate(f) == HasValue(f)
TruthyTime(f) == HasValue(f) /\ Val(f) # EmptyStr
TruthyText(f) == HasValue(f) /\ Val(f) # ""

\* setattr(appointment, field, value) for every field the request carries
ApplyUpdate(a, upd) ==
    LET put(f, old) == IF HasValue(f) THEN Val(f) ELSE IF IsNone(f) THEN NULL ELSE old
    IN  [a EXCEPT !.appointment_date = put(upd.appointment_date, @),
                  !.appointment_time = put(upd.appointment_time, @),
                  !.notes = put(upd.notes, @),
                  !.symptoms = put(upd.symptoms, @),
                  !.status = put(upd.status, @)]

\* the commit fails on a NOT NULL column set to None
CommitFails(upd) == IsNone(upd.appointment_date) \/ IsNone(upd.appointment_time)

\* the edit guard letting CONFIRMED through
Editable_UntilCompleted(st) == st \in {PENDING, CONFIRMED}

\* appointment.status != AppointmentStatus.PENDING refuses the edit
Editable(st) == st = PENDING

\* the row the handler works on: the patient's own appointment
OwnAppointment(apps, id, patient) == id \in DOMAIN apps /\ apps[id].patient_id = patient

\* api/appointments.py update_appointment: fields are checked one at a time,
\* each against the session object as the earlier fields left it
ApiUpdateOutcome(apps, docs, id, patient, upd) ==
    IF ~GetCurrentPatient(patient) THEN [res |-> "Forbidden", apps |-> apps]
    ELSE IF ~UpdateValid(upd) THEN [res |-> "ValidationError", apps |-> apps]
    ELSE IF ~OwnAppointment(apps, id, patient) THEN [res |-> "NotFound", apps |-> apps]
    ELSE IF ~Editable(apps[id].status)
         THEN [res |-> "InvalidStateTransition", apps |-> apps]
    ELSE
    LET a == apps[id]
        dateErr == IF TruthyDate(upd.appointment_date)
                   THEN SlotError(apps, docs, a.doctor_id, Val(upd.appointment_date),
                                  a.appointment_time, id)
                   ELSE "ok"
        timeErr == IF ~TruthyTime(upd.appointment_time) THEN "ok"
                   ELSE IF IsNone(upd.appointment_date) THEN "InternalError"
                   ELSE SlotError(apps, docs, a.doctor_id,
                                  IF HasValue(upd.appointment_date)
                                  THEN Val(upd.appointment_date) ELSE a.appointment_date,
                                  Val(upd.appointment_time), id)
        row == ApplyUpdate(a, upd)
    IN  IF dateErr # "ok" THEN [res |-> dateErr, apps |-> apps]
        ELSE IF timeErr # "ok" THEN [res |-> timeErr, apps |-> apps]
        ELSE IF CommitFails(upd) THEN [res |-> "InternalError", apps |-> apps]
        ELSE IF row.status = NULL
             THEN [res |-> "InternalError", apps |-> [apps EXCEPT ![id] = row]]
        ELSE [res |-> "ok", apps |-> [apps EXCEPT ![id] = row]]

\* the service's update running its slot checks whatever the request carries
SvcUpdateOutcome_AlwaysChecksSlot(apps, docs, id, patient, upd) ==
    IF ~UpdateValid(upd) THEN [res |-> "ValidationError", apps |-> apps]
    ELSE IF ~OwnAppointment(apps, id, patient) THEN [res |-> "NotFound", apps |-> apps]
    ELSE IF ~Editable(apps[id].status)
         THEN [res |-> "InvalidStateTransition", apps |-> apps]
    ELSE
    LET a == apps[id]
        new_date == IF TruthyDate(upd.appointment_date)
                    THEN Val(upd.appointment_date) ELSE a.appointment_date
        new_time == IF TruthyTime(upd.appointment_time)
                    THEN Val(upd.appointment_time) ELSE a.appointment_time
        slotErr == SlotError(apps, docs, a.doctor_id, new_date, new_time, id)
    IN  IF slotErr # "ok" THEN [res |-> slotErr, apps |-> apps]
        ELSE IF CommitFails(upd) THEN [res |-> "InternalError", apps |-> apps]
        ELSE [res |-> "ok", apps |-> [apps EXCEPT ![id] = ApplyUpdate(a, upd)]]

\* services/appointment_service.py update_appointment: one check of the new pair
SvcUpdateOutcome(apps, docs, id, patient, upd) ==
    IF ~UpdateValid(upd) THEN [res |-> "ValidationError", apps |-> apps]
    ELSE IF ~OwnAppointment(apps, id, patient) THEN [res |-> "NotFound", apps |-> apps]
    ELSE IF ~Editable(apps[id].status)
         THEN [res |-> "InvalidStateTransition", apps |-> apps]
    ELSE
    LET a == apps[id]
        new_date == IF TruthyDate(upd.appointment_date)
                    THEN Val(upd.appointment_date) ELSE a.appointment_date
        new_time == IF TruthyTime(upd.appointment_time)
                    THEN Val(upd.appointment_time) ELSE a.appointment_time
        slotErr == IF TruthyDate(upd.appointment_date) \/ TruthyTime(upd.appointment_time)
                   THEN SlotError(apps, docs, a.doctor_id, new_date, new_time, id)
                   ELSE "ok"
    IN  IF slotErr # "ok" THEN [res |-> slotErr, apps |-> apps]
        ELSE IF CommitFails(upd) THEN [res |-> "InternalError", apps |-> apps]
        ELSE [res |-> "ok", apps |-> [apps EXCEPT ![id] = ApplyUpdate(a, upd)]]

----------------------------------------------------------------------------
(* set_status and cancel *)

\* the ownership check satisfied by any doctor profile
OwningDoctor_AnyProfile(docs, user, a) ==
    \E i \in DOMAIN docs : docs[i].user_id = user

\* db.query(Doctor).filter(Doctor.user_id == current_user.id).first() owns the appointment
OwningDoctor(docs, user, a) ==
    \E i \in DOMAIN docs : docs[i].user_id = user /\ a.doctor_id = i

\* update_appointment_status storing the status alone
SetStatusOutcome_StatusOnly(apps, docs, id, actor, upd) ==
    IF ~GetCurrentDoctorOrAdmin(actor) THEN [res |-> "Forbidden", apps |-> apps]
    ELSE IF id \notin DOMAIN apps THEN [res |-> "NotFound", apps |-> apps]
    ELSE IF actor \in DoctorUsers /\ ~OwningDoctor(docs, actor, apps[id])
         THEN [res |-> "Forbidden", apps |-> apps]
    ELSE [res |-> "ok", apps |-> [apps EXCEPT ![id].status = upd.status]]

\* update_appointment_status
SetStatusOutcome(apps, docs, id, actor, upd) ==
    IF ~GetCurrentDoctorOrAdmin(actor) THEN [res |-> "Forbidden", apps |-> apps]
    ELSE IF id \notin DOMAIN apps THEN [res |-> "NotFound", apps |-> apps]
    ELSE IF actor \in DoctorUsers /\ ~OwningDoctor(docs, actor, apps[id])
         THEN [res |-> "Forbidden", apps |-> apps]
    ELSE [res |-> "ok",
          apps |-> [apps EXCEPT ![id] =
                      [@ EXCEPT !.status = upd.status,
                                !.doctor_notes = IF TruthyText(upd.doctor_notes)
                                                 THEN Val(upd.doctor_notes) ELSE @,
                                !.prescription = IF TruthyText(upd.prescription)
                                                 THEN Val(upd.prescription) ELSE @]]]

\* can_cancel of cancel_appointment
CanCancel(docs, actor, a) ==
    \/ actor \in Patients /\ a.patient_id = actor
    \/ actor \in DoctorUsers /\ OwningDoctor(docs, actor, a)
    \/ actor \in Admins

\* the cancel guard without COMPLETED
CancelRefused_OnlyCancelled(st) == st = CANCELLED

\* appointment.status in [COMPLETED, CANCELLED]
CancelRefused(st) == st \in {COMPLETED, CANCELLED}

\* cancel_appointment
CancelOutcome(apps, docs, id, actor) ==
    IF id \notin DOMAIN apps THEN [res |-> "NotFound", apps |-> apps]
    ELSE IF ~CanCancel(docs, actor, apps[id]) THEN [res |-> "Forbidden", apps |-> apps]
    ELSE IF CancelRefused(apps[id].status)
         THEN [res |-> "InvalidStateTransition", apps |-> apps]
    ELSE [res |-> "ok", apps |-> [apps EXCEPT ![id].status = CANCELLED]]

----------------------------------------------------------------------------
(* get_doctor_available_slots *)

\* booked_slots without the status filter of its query
BookedSlots_AnyStatus(apps, doctor_id, d) ==
    {apps[i].appointment_time :
        i \in {j \in DOMAIN apps : /\ apps[j].doctor_id = doctor_id
                                  /\ apps[j].appointment_date = d}}

\* booked_slots: the slot strings of the doctor's PENDING and CONFIRMED
\* appointments on the date
BookedSlots(apps, doctor_id, d) ==
    {apps[i].appointment_time :
        i \in {j \in DOMAIN apps : /\ apps[j].doctor_id = doctor_id
                                  /\ apps[j].appointment_date = d
                                  /\ apps[j].status \in ActiveStatuses}}

\* AppointmentService.get_doctor_available_slots
GetDoctorAvailableSlots(apps, docs, doctor_id, d) ==
    IF doctor_id \notin DOMAIN docs THEN [res |-> "NotFound", slots |-> << >>]
    ELSE LET all_slots == AvailableSlots(docs, doctor_id, d)
             free(slot) == slot \notin BookedSlots(apps, doctor_id, d)
         IN  [res |-> "ok", slots |-> SelectSeq(all_slots, free)]

----------------------------------------------------------------------------
(* Availability templates: slot strings and their two validations *)

T0900 == <<"0","9",":","0","0","-","1","0",":","0","0">>   \* "09:00-10:00"
T1400 == <<"1","4",":","0","0","-","1","5",":","0","0">>   \* "14:00-15:00"
T2300 == <<"2","3",":","0","0","-","2","3",":","3","0">>   \* "23:00-23:30"
TBackwards == <<"1","2",":","0","0","-","1","0",":","0","0">>   \* "12:00-10:00"
TLoose == <<"1","0",":","5","-","1","1",":","0">>           \* "10:5-11:0"
BadSlot == <<"b","a","d","-","s","l","o","t">>              \* "bad-slot"

DigitVal ==
    ("0" :> 0) @@ ("1" :> 1) @@ ("2" :> 2) @@ ("3" :> 3) @@ ("4" :> 4) @@
    ("5" :> 5) @@ ("6" :> 6) @@ ("7" :> 7) @@ ("8" :> 8) @@ ("9" :> 9)

IsDigit(c) == c \in DOMAIN DigitVal

\* the value of a string of decimal digits
RECURSIVE DigitsValue(_)
DigitsValue(s) ==
    IF s = << >> THEN 0
    ELSE 10 * DigitsValue(SubSeq(s, 1, Len(s) - 1)) + DigitVal[s[Len(s)]]

\* int(s): blanks around, an optional sign, then digits; ok is FALSE for ValueError
ParseInt(s) ==
    LET t == Strip(s)
        signed == t # << >> /\ Head(t) \in {"+", "-"}
        ds == IF signed THEN Tail(t) ELSE t
    IN  IF ds # << >> /\ \A i \in DOMAIN ds : IsDigit(ds[i])
        THEN [ok |-> TRUE,
              val |-> IF signed /\ Head(t) = "-" THEN 0 - DigitsValue(ds) ELSE DigitsValue(ds)]
        ELSE [ok |-> FALSE, val |-> 0]

\* c in s
Contains(s, c) == c \in Range(s)

\* s.split(c): the parts of s between the occurrences of c
RECURSIVE Split(_, _)
Split(s, c) ==
    IF ~Contains(s, c) THEN <<s>>
    ELSE LET i == CHOOSE k \in DOMAIN s : s[k] = c /\ \A j \in 1 .. (k - 1) : s[j] # c
         IN  <<SubSeq(s, 1, i - 1)>> \o Split(SubSeq(s, i + 1, Len(s)), c)

\* s.split(c, 1): s cut at the first occurrence of c
SplitFirst(s, c) ==
    IF ~Contains(s, c) THEN <<s>>
    ELSE LET i == CHOOSE k \in DOMAIN s : s[k] = c /\ \A j \in 1 .. (k - 1) : s[j] # c
         IN  <<SubSeq(s, 1, i - 1), SubSeq(s, i + 1, Len(s))>>

\* ([01]?[0-9]|2[0-3])
HourPattern(p) ==
    /\ Len(p) \in {1, 2}
    /\ \A i \in DOMAIN p : IsDigit(p[i])
    /\ Len(p) = 2 => (p[1] \in {"0", "1"} \/ (p[1] = "2" /\ p[2] \in {"0", "1", "2", "3"}))

\* [0-5][0-9]
MinutePattern(p) ==
    /\ Len(p) = 2
    /\ p[1] \in {"0", "1", "2", "3", "4", "5"}
    /\ IsDigit(p[2])

\* re.match(r"^([01]?[0-9]|2[0-3]):[0-5][0-9]-([01]?[0-9]|2[0-3]):[0-5][0-9]$", s)
MatchesTimePattern(s) ==
    LET halves == Split(s, "-") IN
    /\ Len(halves) = 2
    /\ \A h \in 1 .. 2 :
        LET parts == Split(halves[h], ":") IN
        /\ Len(parts) = 2
        /\ HourPattern(parts[1])
        /\ MinutePattern(parts[2])

\* time(hour, minute) as minutes after midnight, for the start (h = 1) and the
\* end (h = 2) of a slot string that matches the pattern
SlotTime(s, h) ==
    LET parts == Split(Split(s, "-")[h], ":")
    IN  60 * DigitsValue(parts[1]) + DigitsValue(parts[2])

business_start == 6 * 60     \* time(6, 0)
business_end == 22 * 60      \* time(22, 0)

\* validate_appointment_time: the error message, "" when the slot string is valid
ValidateAppointmentTime(s) ==
    IF s = << >> THEN "Appointment time is required"
    ELSE IF ~MatchesTimePattern(s) THEN "Time must be in format HH:MM-HH:MM"
    ELSE IF SlotTime(s, 1) >= SlotTime(s, 2) THEN "Start time must be before end time"
    ELSE IF SlotTime(s, 1) < business_start \/ SlotTime(s, 2) > business_end
         THEN "Appointment must be within business hours (6:00 AM - 10:00 PM)"
    ELSE ""

\* update_my_schedule's test of one stripped, non-empty slot string
LenientSlotValid(slot) ==
    /\ Contains(slot, ":")
    /\ Contains(slot, "-")
    /\ LET halves == SplitFirst(slot, "-")
           start_parts == Split(Strip(halves[1]), ":")
           end_parts == Split(Strip(halves[2]), ":")
       IN  /\ Len(start_parts) = 2
           /\ Len(end_parts) = 2
           /\ LET start_hour == ParseInt(start_parts[1])
                  start_min == ParseInt(start_parts[2])
                  end_hour == ParseInt(end_parts[1])
                  end_min == ParseInt(end_parts[2])
              IN  /\ start_hour.ok /\ start_min.ok /\ end_hour.ok /\ end_min.ok
                  /\ 0 <= start_hour.val /\ start_hour.val <= 23
                  /\ 0 <= start_min.val /\ start_min.val <= 59
                  /\ 0 <= end_hour.val /\ end_hour.val <= 23
                  /\ 0 <= end_min.val /\ end_min.val <= 59

\* parse_time_slot: the stripped start and end; ok is FALSE for ValueError
ParseTimeSlot(time_slot) ==
    LET parts == Split(time_slot, "-")
    IN  IF Len(parts) = 2
        THEN [ok |-> TRUE, start |-> Strip(parts[1]), end |-> Strip(parts[2])]
        ELSE [ok |-> FALSE, start |-> << >>, end |-> << >>]

\* time_to_minutes of is_time_slot_overlap; ok is FALSE for ValueError
TimeToMinutes(time_str) ==
    LET parts == Split(time_str, ":")
    IN  IF Len(parts) = 2 /\ ParseInt(parts[1]).ok /\ ParseInt(parts[2]).ok
        THEN [ok |-> TRUE, val |-> ParseInt(parts[1]).val * 60 + ParseInt(parts[2]).val]
        ELSE [ok |-> FALSE, val |-> 0]

\* is_time_slot_overlap; ok is FALSE when it raises
IsTimeSlotOverlap(slot1, slot2) ==
    LET s1 == ParseTimeSlot(slot1)
        s2 == ParseTimeSlot(slot2)
    IN  IF ~(s1.ok /\ s2.ok) THEN [ok |-> FALSE, val |-> FALSE]
        ELSE LET start1_min == TimeToMinutes(s1.start)
                 end1_min == TimeToMinutes(s1.end)
                 start2_min == TimeToMinutes(s2.start)
                 end2_min == TimeToMinutes(s2.end)
             IN  IF ~(start1_min.ok /\ end1_min.ok /\ start2_min.ok /\ end2_min.ok)
                 THEN [ok |-> FALSE, val |-> FALSE]
                 ELSE [ok |-> TRUE,
                       val |-> ~(end1_min.val <= start2_min.val \/ end2_min.val <= start1_min.val)]

\* valid_slots of update_my_schedule: the stripped slot strings that pass, in order
CleanSlots(timeslots) ==
    LET stripped == [i \in DOMAIN timeslots |-> Strip(timeslots[i])]
        keep(slot) == slot # << >> /\ LenientSlotValid(slot)
    IN  SelectSeq(stripped, keep)

----------------------------------------------------------------------------
(* Availability templates: the keys and the shapes of a schedule request *)

\* A JSON object is a sequence of entries [key, value] with distinct keys, in
\* document order.  A value is <<"list", slot strings>>, <<"str", string>> or
\* <<"other">> (a number, an object, null).

valid_days == Range(DayNames)

\* the characters of the keys that requests use
KeyChars ==
    ("monday" :> <<"m","o","n","d","a","y">>) @@
    ("Monday" :> <<"M","o","n","d","a","y">>) @@
    ("tuesday" :> <<"t","u","e","s","d","a","y">>) @@
    ("funday" :> <<"f","u","n","d","a","y">>)

UpperToLower ==
    ("A" :> "a") @@ ("B" :> "b") @@ ("C" :> "c") @@ ("D" :> "d") @@ ("E" :> "e") @@
    ("F" :> "f") @@ ("G" :> "g") @@ ("H" :> "h") @@ ("I" :> "i") @@ ("J" :> "j") @@
    ("K" :> "k") @@ ("L" :> "l") @@ ("M" :> "m") @@ ("N" :> "n") @@ ("O" :> "o") @@
    ("P" :> "p") @@ ("Q" :> "q") @@ ("R" :> "r") @@ ("S" :> "s") @@ ("T" :> "t") @@
    ("U" :> "u") @@ ("V" :> "v") @@ ("W" :> "w") @@ ("X" :> "x") @@ ("Y" :> "y") @@
    ("Z" :> "z")

\* the key whose characters are cs
KeyOf(cs) == CHOOSE k \in DOMAIN KeyChars : KeyChars[k] = cs

\* key.lower()
Lower(key) ==
    KeyOf([i \in DOMAIN KeyChars[key] |->
             LET c == KeyChars[key][i]
             IN  IF c \in DOMAIN UpperToLower THEN UpperToLower[c] ELSE c])

\* key.lower().strip()
LowerStrip(key) == KeyOf(Strip(KeyChars[Lower(key)]))

\* a dict built by assigning the entries in order: an entry is kept unless a
\* later entry has the same key
AsDict(entries) ==
    LET kept(i) == \A j \in DOMAIN entries : j > i => entries[j].key # entries[i].key
        keys == {entries[i].key : i \in DOMAIN entries}
    IN  [k \in keys |-> entries[CHOOSE i \in DOMAIN entries : entries[i].key = k /\ kept(i)].value]

\* the dict stored as it came, each value a list of slot strings
RawTemplate(entries) ==
    LET d == AsDict(entries) IN [k \in DOMAIN d |-> d[k][2]]

\* day_data of update_my_schedule: the entries whose lowered key is a weekday,
\* under the lowered key
DayData(entries) ==
    LET low == [i \in DOMAIN entries |->
                  [key |-> Lower(entries[i].key), value |-> entries[i].value]]
        is_day(e) == e.key \in valid_days
    IN  SelectSeq(low, is_day)

\* the entries of the dict that the entries build, one for each key
AsEntries(entries) ==
    LET kept(i) == \A j \in DOMAIN entries : j > i => entries[j].key # entries[i].key
        pos == {i \in DOMAIN entries : kept(i)}
        RECURSIVE take(_)
        take(i) == IF i > Len(entries) THEN << >>
                   ELSE IF i \in pos THEN <<entries[i]>> \o take(i + 1)
                   ELSE take(i + 1)
    IN  take(1)

\* cleaned_timeslots of update_my_schedule
CleanedTimeslots(entries) ==
    LET day_lower(i) == LowerStrip(entries[i].key)
        assigns(i) == day_lower(i) \in valid_days /\ entries[i].value[1] \in {"list", "str"}
        timeslots(i) == IF entries[i].value[1] = "list" THEN entries[i].value[2]
                        ELSE IF Strip(entries[i].value[2]) # << >> THEN <<entries[i].value[2]>>
                        ELSE << >>
        days == {day_lower(i) : i \in {j \in DOMAIN entries : assigns(j)}}
        final(d) == CHOOSE i \in DOMAIN entries :
                        /\ assigns(i) /\ day_lower(i) = d
                        /\ \A j \in DOMAIN entries : (assigns(j) /\ day_lower(j) = d) => j <= i
    IN  [d \in days |-> CleanSlots(timeslots(final(d)))]

\* the doctor query without its user_id filter
DoctorOf_Unfiltered(docs, user) == CHOOSE i \in DOMAIN docs : \A j \in DOMAIN docs : i <= j

\* db.query(Doctor).filter(Doctor.user_id == current_user.id).first()
DoctorOf(docs, user) == CHOOSE i \in DOMAIN docs : docs[i].user_id = user

\* get_current_doctor: "ok", or the error it raises
GetCurrentDoctor(docs, actor) ==
    IF actor \notin DoctorUsers THEN "Forbidden"
    ELSE IF ~ \E i \in DOMAIN docs : docs[i].user_id = actor THEN "NotFound"
    ELSE "ok"

\* PUT /doctors/me/schedule: update_my_schedule
UpdateMyScheduleOutcome(docs, actor, body) ==
    IF GetCurrentDoctor(docs, actor) # "ok"
    THEN [res |-> GetCurrentDoctor(docs, actor), docs |-> docs]
    ELSE
    LET bare_days == \A i \in DOMAIN body.entries : Lower(body.entries[i].key) \in valid_days
        available_timeslots ==
            IF body.wrapped \/ bare_days THEN body.entries
            ELSE AsEntries(DayData(body.entries))
    IN  IF available_timeslots = << >> THEN [res |-> "BadRequest", docs |-> docs]
        ELSE [res |-> "ok",
              docs |-> [docs EXCEPT ![DoctorOf(docs, actor)].available_timeslots =
                                        CleanedTimeslots(available_timeslots)]]

\* PUT /doctors/me/profile: update_my_doctor_profile, for the available_timeslots
\* field of DoctorUpdate
UpdateMyDoctorProfileOutcome(docs, actor, upd) ==
    IF GetCurrentDoctor(docs, actor) # "ok"
    THEN [res |-> GetCurrentDoctor(docs, actor), docs |-> docs]
    ELSE IF IsNone(upd.available_timeslots) THEN [res |-> "InternalError", docs |-> docs]
    ELSE IF ~IsSet(upd.available_timeslots) THEN [res |-> "ok", docs |-> docs]
    ELSE [res |-> "ok",
          docs |-> [docs EXCEPT ![DoctorOf(docs, actor)].available_timeslots =
                                    RawTemplate(Val(upd.available_timeslots))]]

----------------------------------------------------------------------------
(* Doctor onboarding *)

\* DoctorCreate.available_timeslots: Dict[str, List[str]] that passes validate_timeslots
TimeslotsValid(entries) ==
    \A i \in DOMAIN entries :
        /\ Lower(entries[i].key) \in valid_days
        /\ entries[i].value[1] = "list"
        /\ \A k \in DOMAIN entries[i].value[2] :
              ValidateAppointmentTime(entries[i].value[2][k]) = ""

\* the default schedule of register
DefaultTimeslots ==
    [d \in {"monday", "tuesday", "wednesday", "thursday", "saturday"} |->
        IF d = "saturday" THEN <<T0900>> ELSE <<T0900, T1400>>]

type_mapping == {PATIENT, DOCTOR, ADMIN}

\* the tables after db.add(db_user), db.add(db_doctor) and the commit
Registered(us, docs, req, timeslots) ==
    [users |-> us @@ (req.email :> [user_type |-> req.user_type, is_active |-> TRUE]),
     doctors |-> IF req.user_type = DOCTOR
                 THEN docs @@ ((Cardinality(DOMAIN docs) + 1) :>
                                 [user_id |-> req.email, available_timeslots |-> timeslots])
                 ELSE docs]

\* POST /auth/register: register.  The request carries the user type in upper
\* case and, in doctor_data, a licence number that no doctor has.
RegisterOutcome(us, docs, req) ==
    IF req.email \in DOMAIN us THEN [res |-> "BadRequest", users |-> us, doctors |-> docs]
    ELSE IF req.user_type \notin type_mapping
         THEN [res |-> "BadRequest", users |-> us, doctors |-> docs]
    ELSE IF req.user_type = DOCTOR /\ ~HasValue(req.doctor_data)
         THEN [res |-> "BadRequest", users |-> us, doctors |-> docs]
    ELSE LET timeslots == IF req.user_type = DOCTOR /\ Val(req.doctor_data) # << >>
                          THEN RawTemplate(Val(req.doctor_data))
                          ELSE DefaultTimeslots
             t == Registered(us, docs, req, timeslots)
         IN  [res |-> "ok", users |-> t.users, doctors |-> t.doctors]

\* UserService.create_user, called with a DoctorCreate built from doctor_data
CreateUserOutcome(us, docs, req) ==
    IF HasValue(req.doctor_data) /\ ~TimeslotsValid(Val(req.doctor_data))
    THEN [res |-> "ValidationError", users |-> us, doctors |-> docs]
    ELSE IF req.user_type \notin type_mapping
         THEN [res |-> "ValidationError", users |-> us, doctors |-> docs]
    ELSE IF req.email \in DOMAIN us THEN [res |-> "BadRequest", users |-> us, doctors |-> docs]
    ELSE IF req.user_type = DOCTOR /\ ~HasValue(req.doctor_data)
         THEN [res |-> "BadRequest", users |-> us, doctors |-> docs]
    ELSE LET t == Registered(us, docs, req,
                             IF req.user_type = DOCTOR
                             THEN RawTemplate(Val(req.doctor_data)) ELSE << >>)
         IN  [res |-> "ok", users |-> t.users, doctors |-> t.doctors]

----------------------------------------------------------------------------
(* Requests *)

Optional(S) == {Unset, None} \cup {Some(v) : v \in S}

CreateRequest(doctor_id, d, tm, notes, symptoms) ==
    [doctor_id |-> doctor_id, appointment_date |-> d, appointment_time |-> tm,
     notes |-> notes, symptoms |-> symptoms]

UpdateRequest(d, tm, notes, symptoms, st) ==
    [appointment_date |-> d, appointment_time |-> tm,
     notes |-> notes, symptoms |-> symptoms, status |-> st]

StatusRequest(st, doctor_notes, prescription) ==
    [status |-> st, doctor_notes |-> doctor_notes, prescription |-> prescription]

RequestDates == (Today - 1) .. (Today + MaxAhead)
RequestIds == 1 .. MaxRequests

\* ids a request may name: every row, and one id that no row has
AppointmentIds == 1 .. (Len(appointments) + 1)

Idle == [pc |-> "idle"]
NoRequest == [op |-> "none", actor |-> "", id |-> 0, req |-> << >>, res |-> ""]

----------------------------------------------------------------------------
(* The operations, each handled as one request *)

InitWith(docs) ==
    /\ appointments = << >>
    /\ doctors = docs
    /\ users = InitUsers
    /\ inflight = [r \in RequestIds |-> Idle]
    /\ last = NoRequest

\* POST /appointments: create_appointment
CreateFrom(Actors, Requests) ==
    \E p \in Actors, req \in Requests :
        LET res == CreateCheck(appointments, doctors, req) IN
        /\ res = "ok" => Len(appointments) < MaxAppts
        /\ appointments' = IF res = "ok"
                           THEN Append(appointments, NewAppointment(p, req))
                           ELSE appointments
        /\ last' = [op |-> "create", actor |-> p,
                    id |-> IF res = "ok" THEN Len(appointments) + 1 ELSE 0,
                    req |-> req, res |-> res]
        /\ UNCHANGED <<doctors, users, inflight>>

\* PUT /appointments/{id}: update_appointment of the API
UpdateApiFrom(Actors, Requests) ==
    \E p \in Actors, id \in AppointmentIds, upd \in Requests :
        LET out == ApiUpdateOutcome(appointments, doctors, id, p, upd) IN
        /\ appointments' = out.apps
        /\ last' = [op |-> "update", actor |-> p, id |-> id, req |-> upd, res |-> out.res]
        /\ UNCHANGED <<doctors, users, inflight>>

\* AppointmentService.update_appointment
UpdateSvcFrom(Actors, Requests) ==
    \E p \in Actors, id \in AppointmentIds, upd \in Requests :
        LET out == SvcUpdateOutcome(appointments, doctors, id, p, upd) IN
        /\ appointments' = out.apps
        /\ last' = [op |-> "update", actor |-> p, id |-> id, req |-> upd, res |-> out.res]
        /\ UNCHANGED <<doctors, users, inflight>>

\* PUT /appointments/{id}/status: update_appointment_status
SetStatusFrom(Actors, Requests) ==
    \E u \in Actors, id \in AppointmentIds, upd \in Requests :
        LET out == SetStatusOutcome(appointments, doctors, id, u, upd) IN
        /\ appointments' = out.apps
        /\ last' = [op |-> "set_status", actor |-> u, id |-> id, req |-> upd, res |-> out.res]
        /\ UNCHANGED <<doctors, users, inflight>>

\* DELETE /appointments/{id}: cancel_appointment
CancelFrom(Actors) ==
    \E u \in Actors, id \in AppointmentIds :
        LET out == CancelOutcome(appointments, doctors, id, u) IN
        /\ appointments' = out.apps
        /\ last' = [op |-> "cancel", actor |-> u, id |-> id, req |-> << >>, res |-> out.res]
        /\ UNCHANGED <<doctors, users, inflight>>

\* create_appointment up to its conflict query, as one of several requests in flight
BeginCreate(Actors, Requests) ==
    \E r \in RequestIds, p \in Actors, req \in Requests :
        LET res == CreateCheck(appointments, doctors, req) IN
        /\ inflight[r] = Idle
        /\ IF res = "ok"
           THEN /\ inflight' = [inflight EXCEPT ![r] = [pc |-> "checked", actor |-> p, req |-> req]]
                /\ UNCHANGED last
           ELSE /\ last' = [op |-> "create", actor |-> p, id |-> 0, req |-> req, res |-> res]
                /\ UNCHANGED inflight
        /\ UNCHANGED <<appointments, doctors, users>>

\* db.add(db_appointment); db.commit() of a request whose checks passed
CommitCreate ==
    \E r \in RequestIds :
        /\ inflight[r].pc = "checked"
        /\ Len(appointments) < MaxAppts
        /\ appointments' = Append(appointments, NewAppointment(inflight[r].actor, inflight[r].req))
        /\ inflight' = [inflight EXCEPT ![r] = Idle]
        /\ last' = [op |-> "create", actor |-> inflight[r].actor, id |-> Len(appointments) + 1,
                    req |-> inflight[r].req, res |-> "ok"]
        /\ UNCHANGED <<doctors, users>>

\* the row after the flush of a session object that was read as `read` and had
\* the request's fields assigned: the UPDATE names the columns whose assigned
\* value differs from the value read, and leaves the other columns as they are
FlushUpdate(cur, read, upd) ==
    LET put(f, r, c) == IF HasValue(f) THEN (IF Val(f) = r THEN c ELSE Val(f))
                        ELSE IF IsNone(f) THEN (IF r = NULL THEN c ELSE NULL)
                        ELSE c
    IN  [cur EXCEPT !.appointment_date = put(upd.appointment_date, read.appointment_date, @),
                    !.appointment_time = put(upd.appointment_time, read.appointment_time, @),
                    !.notes = put(upd.notes, read.notes, @),
                    !.symptoms = put(upd.symptoms, read.symptoms, @),
                    !.status = put(upd.status, read.status, @)]

\* update_appointment of the API up to its last conflict query, as one of
\* several requests in flight; a request that fails is answered at once
BeginUpdate(Actors, Requests) ==
    \E r \in RequestIds, p \in Actors, id \in AppointmentIds, upd \in Requests :
        LET out == ApiUpdateOutcome(appointments, doctors, id, p, upd) IN
        /\ inflight[r] = Idle
        /\ IF out.res = "ok"
           THEN /\ inflight' = [inflight EXCEPT ![r] =
                                  [pc |-> "edited", actor |-> p, id |-> id, req |-> upd,
                                   row |-> appointments[id]]]
                /\ UNCHANGED <<appointments, last>>
           ELSE /\ appointments' = out.apps
                /\ last' = [op |-> "update", actor |-> p, id |-> id, req |-> upd,
                            res |-> out.res]
                /\ UNCHANGED inflight
        /\ UNCHANGED <<doctors, users>>

\* db.commit() of an update whose checks passed
CommitUpdate ==
    \E r \in RequestIds :
        /\ inflight[r].pc = "edited"
        /\ appointments' = [appointments EXCEPT ![inflight[r].id] =
                               FlushUpdate(@, inflight[r].row, inflight[r].req)]
        /\ inflight' = [inflight EXCEPT ![r] = Idle]
        /\ last' = [op |-> "update", actor |-> inflight[r].actor, id |-> inflight[r].id,
                    req |-> inflight[r].req, res |-> "ok"]
        /\ UNCHANGED <<doctors, users>>

\* AppointmentService.get_doctor_available_slots, a query
AvailableSlotsFrom(DoctorIds, Dates) ==
    \E doctor_id \in DoctorIds, d \in Dates :
        LET out == GetDoctorAvailableSlots(appointments, doctors, doctor_id, d) IN
        /\ last' = [op |-> "available_slots", actor |-> "", id |-> 0,
                    req |-> [doctor_id |-> doctor_id, appointment_date |-> d],
                    res |-> out.res, slots |-> out.slots]
        /\ UNCHANGED <<appointments, doctors, users, inflight>>

Staff == DoctorUsers \cup Admins

\* PUT /doctors/me/schedule: update_my_schedule
UpdateMyScheduleFrom(Actors, Requests) ==
    \E u \in Actors, body \in Requests :
        LET out == UpdateMyScheduleOutcome(doctors, u, body) IN
        /\ doctors' = out.docs
        /\ last' = [op |-> "schedule", actor |-> u, id |-> 0, req |-> body, res |-> out.res]
        /\ UNCHANGED <<appointments, users, inflight>>

\* PUT /doctors/me/profile: update_my_doctor_profile
UpdateMyDoctorProfileFrom(Actors, Requests) ==
    \E u \in Actors, upd \in Requests :
        LET out == UpdateMyDoctorProfileOutcome(doctors, u, upd) IN
        /\ doctors' = out.docs
        /\ last' = [op |-> "profile", actor |-> u, id |-> 0, req |-> upd, res |-> out.res]
        /\ UNCHANGED <<appointments, users, inflight>>

\* POST /auth/register: register
RegisterFrom(Requests) ==
    \E req \in Requests :
        LET out == RegisterOutcome(users, doctors, req) IN
        /\ users' = out.users
        /\ doctors' = out.doctors
        /\ last' = [op |-> "register", actor |-> req.email, id |-> 0, req |-> req, res |-> out.res]
        /\ UNCHANGED <<appointments, inflight>>

\* UserService.create_user
CreateUserFrom(Requests) ==
    \E req \in Requests :
        LET out == CreateUserOutcome(users, doctors, req) IN
        /\ users' = out.users
        /\ doctors' = out.doctors
        /\ last' = [op |-> "create_user", actor |-> req.email, id |-> 0, req |-> req,
                    res |-> out.res]
        /\ UNCHANGED <<appointments, inflight>>

----------------------------------------------------------------------------
(* Spec: the four operations, one request at a time, on two slots of one day *)

LifecycleCreates ==
    {CreateRequest(1, Today, tm, NULL, NULL) : tm \in {T1000, T1030}}

LifecycleUpdates ==
    {UpdateRequest(Unset, Unset, Unset, Unset, st) : st \in {None, Some(CONFIRMED), Some(COMPLETED)}}
    \cup {UpdateRequest(Some(Today - 1), Unset, Unset, Unset, Unset)}

LifecycleStatuses == {StatusRequest(st, Unset, Unset) : st \in AppointmentStatus}

Init == InitWith(InitDoctors)

Next ==
    \/ CreateFrom(Patients, LifecycleCreates)
    \/ CancelFrom(ActiveUsers)
    \/ SetStatusFrom(Staff, LifecycleStatuses)
    \/ UpdateApiFrom(Patients, LifecycleUpdates)
    \/ UpdateSvcFrom(Patients, LifecycleUpdates)

Spec == Init /\ [][Next]_vars

----------------------------------------------------------------------------
(* SpecTransitions: every actor and every kind of edit request on one slot *)

TransitionCreates == {CreateRequest(1, Today, T1000, NULL, NULL)}

TransitionUpdates ==
    {UpdateRequest(Unset, Unset, Unset, Unset, Unset),
     UpdateRequest(Unset, Unset, None, Unset, Unset),
     UpdateRequest(Unset, Some(T1200), Unset, Unset, Unset),
     UpdateRequest(Unset, Unset, Unset, Unset, Some(CONFIRMED)),
     UpdateRequest(Some(Today - 1), Unset, Unset, Unset, Unset),
     UpdateRequest(None, Unset, Unset, Unset, Unset)}

NextTransitions ==
    \/ CreateFrom(Patients, TransitionCreates)
    \/ UpdateApiFrom(Patients, TransitionUpdates)
    \/ UpdateSvcFrom(Patients, TransitionUpdates)
    \/ SetStatusFrom(Staff, LifecycleStatuses)
    \/ CancelFrom(ActiveUsers)

SpecTransitions == Init /\ [][NextTransitions]_vars

----------------------------------------------------------------------------
(* SpecBooking: every kind of create request, against two doctors' templates *)

BookingDoctors ==
    (1 :> [user_id |-> "u1",
           available_timeslots |-> ("monday" :> <<T1000, T1030>> @@ "tuesday" :> <<T1000>>
                                    @@ "sunday" :> <<T1000>>)]) @@
    (2 :> [user_id |-> "u2",
           available_timeslots |-> ("monday" :> <<T1000>>)]) @@
    (3 :> [user_id |-> "u3",
           available_timeslots |-> ("monday" :> <<T1000>>)])

\* doctors 1 and 2 with listed, unlisted and padded slot strings; the deactivated
\* and the missing doctor; a blank slot string
BookingCreates ==
    {CreateRequest(doc, d, tm, NULL, NULL) :
        doc \in {1, 2}, d \in RequestDates, tm \in {T1000, T1030, T1200, Padded(T1000)}}
    \cup {CreateRequest(doc, d, T1000, NULL, NULL) : doc \in {3, 4}, d \in RequestDates}
    \cup {CreateRequest(1, d, tm, NULL, NULL) : d \in RequestDates, tm \in {EmptyStr, <<" ">>}}

NextBooking ==
    \/ CreateFrom({"p1"}, BookingCreates)
    \/ SetStatusFrom({"admin"}, {StatusRequest(CONFIRMED, Unset, Unset)})
    \/ CancelFrom({"admin"})

SpecBooking == InitWith(BookingDoctors) /\ [][NextBooking]_vars

----------------------------------------------------------------------------
(* SpecEdit: rescheduling a pending appointment *)

EditUpdates ==
    {UpdateRequest(d, tm, Unset, Unset, Unset) :
        d \in {Unset, Some(Today + 1)}, tm \in {Unset, Some(T1030), Some(EmptyStr)}}

NextEdit ==
    \/ CreateFrom(Patients, LifecycleCreates)
    \/ UpdateApiFrom(Patients, EditUpdates)
    \/ UpdateSvcFrom(Patients, EditUpdates)
    \/ CancelFrom({"admin"})

SpecEdit == Init /\ [][NextEdit]_vars

----------------------------------------------------------------------------
(* SpecRace: create requests whose check and insert interleave *)

NextRace ==
    \/ BeginCreate(Patients, LifecycleCreates)
    \/ CommitCreate
    \/ CancelFrom({"admin"})

SpecRace == Init /\ [][NextRace]_vars

----------------------------------------------------------------------------
(* SpecAccess: every user on every operation; existing, deactivated and
   missing doctors; existing and missing appointment ids *)

\* one bookable request; requests for doctor 3 (deactivated user) and doctor 4
\* (no such doctor) with a listed, an unlisted and a blank slot string, today
\* and yesterday; a request for doctor id 0, which the schema rejects
AccessCreates ==
    {CreateRequest(1, Today, T1000, NULL, NULL), CreateRequest(0, Today, T1000, NULL, NULL)}
    \cup {CreateRequest(doc, d, tm, NULL, NULL) :
            doc \in {3, 4}, d \in {Today - 1, Today}, tm \in {T1000, T1200, <<" ">>}}

\* an edit of the symptoms to the value they have, a move to an unlisted slot,
\* and a move to yesterday
AccessUpdates ==
    {UpdateRequest(Unset, Unset, Unset, None, Unset),
     UpdateRequest(Unset, Some(T1200), Unset, Unset, Unset),
     UpdateRequest(Some(Today - 1), Unset, Unset, Unset, Unset)}

AccessStatuses == {StatusRequest(st, Unset, Unset) : st \in {CONFIRMED, COMPLETED}}

NextAccess ==
    \/ CreateFrom({"p1"}, AccessCreates)
    \/ UpdateApiFrom(ActiveUsers, AccessUpdates)
    \/ UpdateSvcFrom(Patients, AccessUpdates)
    \/ SetStatusFrom(ActiveUsers, AccessStatuses)
    \/ CancelFrom(ActiveUsers)

SpecAccess == Init /\ [][NextAccess]_vars

----------------------------------------------------------------------------
(* SpecSchedule: doctors' templates written by registration, by the schedule
   update and by the profile update, with one bookable slot *)

Entry(key, value) == [key |-> key, value |-> value]
SlotList(slots) == <<"list", slots>>

ScheduleBody(wrapped, entries) == [wrapped |-> wrapped, entries |-> entries]

ScheduleBodies ==
    {ScheduleBody(w, <<Entry("monday", SlotList(<<T1000, BadSlot>>)),
                       Entry("funday", SlotList(<<T0900>>))>>) : w \in BOOLEAN}
    \cup {ScheduleBody(w, <<Entry("funday", SlotList(<<T0900>>))>>) : w \in BOOLEAN}
    \cup {ScheduleBody(FALSE, <<Entry("monday", SlotList(<<tm>>))>>) :
            tm \in {TLoose, T2300, TBackwards, Padded(T1000)}}
    \cup {ScheduleBody(TRUE, <<Entry("Monday", SlotList(<<T1200, T1000>>))>>),
          ScheduleBody(FALSE, <<Entry("tuesday", SlotList(<<T1000>>))>>),
          ScheduleBody(FALSE, <<Entry("monday", <<"str", T1000>>),
                                Entry("tuesday", <<"other">>)>>),
          ScheduleBody(TRUE, << >>)}

ProfileUpdates ==
    {[available_timeslots |-> t] :
        t \in {Unset, None,
               Some(<<Entry("monday", SlotList(<<T1000, T1030>>))>>),
               Some(<<Entry("monday", SlotList(<<T2300>>))>>)}}

RegisterRequests ==
    {[email |-> e, user_type |-> ty, doctor_data |-> dd] :
        e \in {"u1", "u4"}, ty \in {DOCTOR, PATIENT, "NURSE"},
        dd \in {None,
                Some(<< >>),
                Some(<<Entry("monday", SlotList(<<T1000>>))>>),
                Some(<<Entry("monday", SlotList(<<T1000, BadSlot>>))>>),
                Some(<<Entry("funday", SlotList(<<T0900>>))>>)}}

NextSchedule ==
    \/ CreateFrom({"p1"}, TransitionCreates)
    \/ UpdateMyScheduleFrom({"u1", "admin"}, ScheduleBodies)
    \/ UpdateMyDoctorProfileFrom({"u1", "admin"}, ProfileUpdates)
    \/ RegisterFrom(RegisterRequests)
    \/ CreateUserFrom(RegisterRequests)

SpecSchedule == Init /\ [][NextSchedule]_vars

----------------------------------------------------------------------------
(* SpecNotes: status changes that carry doctor's notes and a prescription *)

NotesStatuses ==
    {StatusRequest(st, dn, pr) :
        st \in AppointmentStatus,
        dn \in {Unset, Some(""), Some("rest")},
        pr \in {Unset, Some("rx")}}

NextNotes ==
    \/ CreateFrom({"p1"}, TransitionCreates)
    \/ SetStatusFrom({"u1"}, NotesStatuses)
    \/ CancelFrom({"p1"})

SpecNotes == Init /\ [][NextNotes]_vars

----------------------------------------------------------------------------
(* SpecCare: the doctor, another doctor and the admin confirm and complete *)

CareStatuses ==
    {StatusRequest(CONFIRMED, Unset, Unset),
     StatusRequest(CONFIRMED, Some("rest"), Unset),
     StatusRequest(COMPLETED, Unset, Some("rx")),
     StatusRequest(COMPLETED, Some(""), Unset)}

NextCare ==
    \/ CreateFrom({"p1"}, TransitionCreates)
    \/ SetStatusFrom({"u1", "u2", "admin"}, CareStatuses)
    \/ CancelFrom({"p1"})

SpecCare == Init /\ [][NextCare]_vars

----------------------------------------------------------------------------
(* SpecRemarks: the patient's edits of notes and symptoms, on appointments
   whose slot the doctor may since have withdrawn *)

\* edits of the notes, of the symptoms and of both, and a move to another slot
RemarkUpdates ==
    {UpdateRequest(Unset, Unset, Some("n1"), Unset, Unset),
     UpdateRequest(Unset, Unset, Unset, Some("s1"), Unset),
     UpdateRequest(Unset, Unset, None, Some("s1"), Unset),
     UpdateRequest(Unset, Some(T1030), Unset, Unset, Unset)}

\* a schedule that offers tuesday alone
RemarkSchedules == {ScheduleBody(FALSE, <<Entry("tuesday", SlotList(<<T1000>>))>>)}

\* the first slot of each day ahead, and the second slot of today
RemarkCreates ==
    {CreateRequest(1, d, T1000, NULL, NULL) : d \in Today .. (Today + MaxAhead)}
    \cup {CreateRequest(1, Today, T1030, NULL, NULL)}

NextRemarks ==
    \/ CreateFrom({"p1"}, RemarkCreates)
    \/ UpdateApiFrom(Patients, RemarkUpdates)
    \/ UpdateSvcFrom(Patients, RemarkUpdates)
    \/ UpdateMyScheduleFrom({"u1"}, RemarkSchedules)

SpecRemarks == Init /\ [][NextRemarks]_vars

----------------------------------------------------------------------------
(* SpecFrame: bookings and their lifecycle next to two doctors' schedule updates *)

FrameUpdates == {UpdateRequest(Unset, Some(T1030), Unset, Unset, Unset)}

FrameStatuses == {StatusRequest(CONFIRMED, Unset, Unset)}

FrameSchedules ==
    {ScheduleBody(FALSE, <<Entry("tuesday", SlotList(<<T1000>>))>>),
     ScheduleBody(TRUE, <<Entry("Monday", SlotList(<<T1000, BadSlot>>))>>),
     ScheduleBody(FALSE, <<Entry("funday", SlotList(<<T0900>>))>>)}

NextFrame ==
    \/ CreateFrom({"p1"}, TransitionCreates)
    \/ UpdateApiFrom({"p1"}, FrameUpdates)
    \/ UpdateSvcFrom({"p1"}, FrameUpdates)
    \/ SetStatusFrom({"u1"}, FrameStatuses)
    \/ CancelFrom({"p1"})
    \/ UpdateMyScheduleFrom({"u1", "u2", "admin"}, FrameSchedules)

SpecFrame == Init /\ [][NextFrame]_vars

----------------------------------------------------------------------------
(* SpecAgree: moves of a pending appointment to another day, another slot, or both *)

AgreeUpdates ==
    {UpdateRequest(d, tm, Unset, Unset, Unset) :
        d \in {Unset, Some(Today + 1)}, tm \in {Unset, Some(T1000), Some(T1030)}}

NextAgree ==
    \/ CreateFrom(Patients, LifecycleCreates)
    \/ UpdateApiFrom(Patients, AgreeUpdates)
    \/ UpdateSvcFrom(Patients, AgreeUpdates)
    \/ CancelFrom({"admin"})

SpecAgree == Init /\ [][NextAgree]_vars

----------------------------------------------------------------------------
(* SpecSlots: the free slots of a doctor and date, asked between bookings *)

\* doctor 1 lists monday's slots out of time order, one of them also padded
\* with blanks; doctor 3's user is deactivated
SlotsDoctors ==
    (1 :> [user_id |-> "u1",
           available_timeslots |-> ("monday" :> <<T1030, T1000, Padded(T1000)>>
                                    @@ "tuesday" :> <<T1000>>)]) @@
    (2 :> [user_id |-> "u2",
           available_timeslots |-> ("tuesday" :> <<T1030>>)]) @@
    (3 :> [user_id |-> "u3",
           available_timeslots |-> ("monday" :> <<T1000>>)])

SlotsCreates ==
    {CreateRequest(1, d, tm, NULL, NULL) :
        d \in Today .. (Today + MaxAhead), tm \in {T1000, T1030}}

SlotsStatuses == {StatusRequest(st, Unset, Unset) : st \in {CONFIRMED, CANCELLED}}

NextSlots ==
    \/ CreateFrom({"p1"}, SlotsCreates)
    \/ SetStatusFrom({"admin"}, SlotsStatuses)
    \/ AvailableSlotsFrom({1, 3, 4}, RequestDates)

SpecSlots == InitWith(SlotsDoctors) /\ [][NextSlots]_vars

----------------------------------------------------------------------------
(* SpecMoveRace: creates and moves into one slot whose checks and commits
   interleave *)

\* a move into the slot "10:30-11:30" of the appointment's day
MoveUpdates == {UpdateRequest(Unset, Some(T1030), Unset, Unset, Unset)}

NextMoveRace ==
    \/ BeginCreate(Patients, LifecycleCreates)
    \/ CommitCreate
    \/ BeginUpdate(Patients, MoveUpdates)
    \/ CommitUpdate

SpecMoveRace == Init /\ [][NextMoveRace]_vars

----------------------------------------------------------------------------
(* SpecFormat: create requests whose slot string is not an HH:MM-HH:MM interval *)

TBadHour == <<"1","0",":","0","0","-","2","5",":","0","0">>   \* "10:00-25:00"

\* a listed slot, three strings that are no 24-hour interval, and a blank string
FormatCreates ==
    {CreateRequest(1, d, tm, NULL, NULL) :
        d \in {Today, Today + 1}, tm \in {T1000, TBadHour, BadSlot, TLoose, <<" ">>}}

\* a profile update whose template lists "10:00-25:00" under monday
FormatProfiles ==
    {[available_timeslots |-> Some(<<Entry("monday", SlotList(<<T1000, TBadHour>>))>>)]}

NextFormat ==
    \/ CreateFrom(Patients, FormatCreates)
    \/ UpdateMyDoctorProfileFrom({"u1"}, FormatProfiles)
    \/ SetStatusFrom({"u1"}, AccessStatuses)
    \/ CancelFrom({"admin"})

SpecFormat == Init /\ [][NextFormat]_vars

----------------------------------------------------------------------------
(* Vocabulary of the properties *)

Terminal == {COMPLETED, CANCELLED}

LifecycleEdges ==
    {<<PENDING, CONFIRMED>>, <<CONFIRMED, COMPLETED>>,
     <<PENDING, CANCELLED>>, <<CONFIRMED, CANCELLED>>}

SameSlot(a, b) ==
    /\ a.doctor_id = b.doctor_id
    /\ a.appointment_date = b.appointment_date
    /\ a.appointment_time = b.appointment_time

\* the request just handled named an existing row
OnRow(op) == last'.op = op /\ last'.id \in DOMAIN appointments

\* the actor of the request just handled may act on row a: its patient, the user
\* of its doctor, or an admin
Authorized(a) ==
    \/ last'.actor = a.patient_id
    \/ last'.actor = doctors[a.doctor_id].user_id
    \/ last'.actor \in Admins

----------------------------------------------------------------------------
(* C1: in every state reached by create, update, set_status and cancel run one
   at a time, each (doctor, date, time slot) has at most one appointment whose
   status is PENDING or CONFIRMED. *)
C1_OneActivePerSlot ==
    \A i, j \in DOMAIN appointments :
        (i # j /\ SameSlot(appointments[i], appointments[j]))
            => ~(appointments[i].status \in ActiveStatuses
                 /\ appointments[j].status \in ActiveStatuses)

(* C2: two create requests for the same (doctor, date, time slot) whose check
   and insert steps interleave never both persist a PENDING appointment. *)
C2_RacingCreatesNeverBothSucceed ==
    ~ \E i, j \in DOMAIN appointments :
        /\ i < j
        /\ SameSlot(appointments[i], appointments[j])
        /\ appointments[i].status = PENDING
        /\ appointments[j].status = PENDING

(* C3: a set_status call by the owning doctor or an admin on an appointment
   that is COMPLETED or CANCELLED fails with InvalidStateTransition and leaves
   the status as it was. *)
C3_TerminalAbsorbing ==
    [][(/\ OnRow("set_status")
        /\ Authorized(appointments[last'.id])
        /\ appointments[last'.id].status \in Terminal)
       => (/\ last'.res = "InvalidStateTransition"
           /\ appointments'[last'.id].status = appointments[last'.id].status)]_vars

(* C4: every status change made by set_status is one of PENDING->CONFIRMED,
   CONFIRMED->COMPLETED, PENDING->CANCELLED, CONFIRMED->CANCELLED. *)
C4_OnlyLifecycleEdges ==
    [][last'.op = "set_status"
       => \A i \in DOMAIN appointments :
            appointments'[i].status # appointments[i].status
                => <<appointments[i].status, appointments'[i].status>> \in LifecycleEdges]_vars

(* C5: no request made by a patient (create, update, cancel) leaves an
   appointment in CONFIRMED or COMPLETED that was not already in that status. *)
C5_PatientNeverConfirms ==
    [][last'.actor \in Patients
       => \A i \in DOMAIN appointments' :
            appointments'[i].status \in {CONFIRMED, COMPLETED}
                => (i \in DOMAIN appointments
                    /\ appointments[i].status = appointments'[i].status)]_vars

(* C6: cancel by the appointment's patient, the owning doctor or an admin
   succeeds on PENDING and CONFIRMED and sets the status to CANCELLED, changing
   nothing else; on COMPLETED and CANCELLED it fails and changes nothing. *)
C6_Cancel ==
    [][(OnRow("cancel") /\ Authorized(appointments[last'.id]))
       => LET a == appointments[last'.id] IN
          /\ a.status \in ActiveStatuses
                => (/\ last'.res = "ok"
                    /\ appointments' = [appointments EXCEPT ![last'.id].status = CANCELLED])
          /\ a.status \in Terminal
                => (/\ last'.res = "InvalidStateTransition"
                    /\ appointments' = appointments)]_vars

\* a cancel of a COMPLETED appointment by its own patient was refused
C6_Witness ==
    /\ last.op = "cancel"
    /\ last.id \in DOMAIN appointments
    /\ last.actor = appointments[last.id].patient_id
    /\ appointments[last.id].status = COMPLETED
    /\ last.res = "InvalidStateTransition"

\* the request just handled is an update by the patient of an appointment that
\* is CONFIRMED, COMPLETED or CANCELLED
EditOfSettled ==
    /\ OnRow("update")
    /\ last'.actor = appointments[last'.id].patient_id
    /\ appointments[last'.id].status \in {CONFIRMED, COMPLETED, CANCELLED}

(* C7, as claimed: an update by the owning patient of an appointment that is
   CONFIRMED, COMPLETED or CANCELLED fails with InvalidStateTransition whatever
   fields it carries, and changes nothing. *)
C7_Claimed ==
    [][EditOfSettled
       => (last'.res = "InvalidStateTransition" /\ appointments' = appointments)]_vars

(* C7, amended: such an update always fails and changes nothing; the error is
   ValidationError when the request carries a past date and
   InvalidStateTransition otherwise. *)
C7_EditOfSettledFails ==
    [][EditOfSettled
       => (/\ appointments' = appointments
           /\ last'.res = IF /\ HasValue(last'.req.appointment_date)
                             /\ Val(last'.req.appointment_date) < Today
                          THEN "ValidationError"
                          ELSE "InvalidStateTransition")]_vars

\* an edit that a pending appointment would have rejected for its slot was
\* refused for the status of a CONFIRMED one
C7_Witness ==
    /\ last.op = "update"
    /\ last.id \in DOMAIN appointments
    /\ last.actor = appointments[last.id].patient_id
    /\ appointments[last.id].status = CONFIRMED
    /\ HasValue(last.req.appointment_time)
    /\ last.res = "InvalidStateTransition"

\* the template of the request's doctor lists slot string tm under the weekday of d
Listed(doctor_id, d, tm) ==
    LET t == doctors[doctor_id].available_timeslots IN
    /\ WeekdayName(d) \in DOMAIN t
    /\ \E k \in DOMAIN t[WeekdayName(d)] : t[WeekdayName(d)][k] = tm

\* an appointment in PENDING or CONFIRMED holds (doctor, date, tm)
Held(doctor_id, d, tm) ==
    \E i \in DOMAIN appointments :
        /\ appointments[i].doctor_id = doctor_id
        /\ appointments[i].appointment_date = d
        /\ appointments[i].appointment_time = tm
        /\ appointments[i].status \in {PENDING, CONFIRMED}

\* the request just handled is a create for an existing doctor whose user is
\* active, on a date that is not past
CreateForActiveDoctor ==
    /\ last'.op = "create"
    /\ last'.req.doctor_id \in DOMAIN doctors
    /\ doctors[last'.req.doctor_id].user_id \in ActiveUsers
    /\ last'.req.appointment_date >= Today

\* a create that succeeded added one PENDING row, a create that failed added none
CreateEffect(tm) ==
    IF last'.res = "ok"
    THEN /\ Len(appointments') = Len(appointments) + 1
         /\ SubSeq(appointments', 1, Len(appointments)) = appointments
         /\ LET a == appointments'[Len(appointments')] IN
            /\ a.status = PENDING
            /\ a.patient_id = last'.actor
            /\ a.doctor_id = last'.req.doctor_id
            /\ a.appointment_date = last'.req.appointment_date
            /\ a.appointment_time = tm
    ELSE appointments' = appointments

(* C8, as claimed: for an active doctor and a date that is not past, create
   succeeds iff the requested slot string itself is listed in the template
   under the date's weekday and no PENDING/CONFIRMED appointment holds that
   doctor, date and slot; success adds one PENDING appointment, failure none. *)
C8_Claimed ==
    [][CreateForActiveDoctor
       => LET r == last'.req IN
          /\ last'.res = "ok"
                <=> (/\ Listed(r.doctor_id, r.appointment_date, r.appointment_time)
                     /\ ~Held(r.doctor_id, r.appointment_date, r.appointment_time))
          /\ CreateEffect(r.appointment_time)]_vars

(* C8, amended: the same with the requested slot string taken after leading
   and trailing whitespace is stripped; the stripped string is what is stored. *)
C8_CreateIffOfferedAndFree ==
    [][CreateForActiveDoctor
       => LET r == last'.req
              tm == Strip(r.appointment_time) IN
          /\ last'.res = "ok"
                <=> (/\ Listed(r.doctor_id, r.appointment_date, tm)
                     /\ ~Held(r.doctor_id, r.appointment_date, tm))
          /\ CreateEffect(tm)]_vars

\* a create whose slot string came padded with blanks succeeded on a slot that
\* a CANCELLED appointment of the same doctor and date still names
C8_Witness ==
    /\ last.op = "create"
    /\ last.res = "ok"
    /\ last.req.appointment_time # Strip(last.req.appointment_time)
    /\ \E i \in DOMAIN appointments :
        /\ i # last.id
        /\ SameSlot(appointments[i], appointments[last.id])
        /\ appointments[i].status = CANCELLED

(* C9: create with a date earlier than today fails with ValidationError and
   adds no appointment, whether or not the doctor exists, the slot is offered
   or the slot is free. *)
C9_PastDateRejected ==
    [][(last'.op = "create" /\ last'.req.appointment_date < Today)
       => (last'.res = "ValidationError" /\ appointments' = appointments)]_vars

\* a create for yesterday was rejected although the doctor is active, lists the
\* slot under yesterday's weekday and nobody holds it
C9_Witness ==
    /\ last.op = "create"
    /\ last.req.appointment_date < Today
    /\ last.res = "ValidationError"
    /\ last.req.doctor_id \in DOMAIN doctors
    /\ doctors[last.req.doctor_id].user_id \in ActiveUsers
    /\ Listed(last.req.doctor_id, last.req.appointment_date, last.req.appointment_time)
    /\ ~Held(last.req.doctor_id, last.req.appointment_date, last.req.appointment_time)

(* C10: an update that carries a date and/or a time for a PENDING appointment
   of the requesting patient succeeds only if the resulting (date, time) is
   listed in the doctor's template and no other PENDING/CONFIRMED appointment of
   that doctor holds it; when it fails the appointment keeps its date and time. *)
C10_RescheduleOnlyToOfferedFreeSlot ==
    [][(/\ OnRow("update")
        /\ last'.actor = appointments[last'.id].patient_id
        /\ appointments[last'.id].status = PENDING
        /\ (IsSet(last'.req.appointment_date) \/ IsSet(last'.req.appointment_time)))
       => LET old == appointments[last'.id]
              new == appointments'[last'.id] IN
          IF last'.res = "ok"
          THEN /\ Listed(new.doctor_id, new.appointment_date, new.appointment_time)
               /\ ~ \E j \in DOMAIN appointments' :
                      /\ j # last'.id
                      /\ SameSlot(appointments'[j], new)
                      /\ appointments'[j].status \in ActiveStatuses
          ELSE /\ new.appointment_date = old.appointment_date
               /\ new.appointment_time = old.appointment_time]_vars


(* C11: an appointment in CANCELLED or COMPLETED does not occupy its slot:
   right after a cancel has put an appointment of (doctor, date, slot) into
   CANCELLED, a create for the same doctor, date and slot, still listed in the
   template and not in the past, succeeds. *)
C11_TerminalFreesSlot ==
    [][(/\ last.op = "cancel"
        /\ last.res = "ok"
        /\ last'.op = "create"
        /\ LET a == appointments[last.id]
               r == last'.req IN
           /\ a.status = CANCELLED
           /\ r.doctor_id = a.doctor_id
           /\ r.appointment_date = a.appointment_date
           /\ r.appointment_time = a.appointment_time
           /\ r.appointment_date >= Today
           /\ doctors[r.doctor_id].user_id \in ActiveUsers
           /\ Listed(r.doctor_id, r.appointment_date, r.appointment_time))
       => last'.res = "ok"]_vars


\* the actor of the request just handled is a doctor other than the doctor of row a
ForeignDoctor(a) ==
    last'.actor \in DoctorUsers /\ doctors[a.doctor_id].user_id # last'.actor

\* the actor of the request just handled is a patient other than the patient of row a
ForeignPatient(a) ==
    last'.actor \in Patients /\ a.patient_id # last'.actor

\* the request just handled was refused with Forbidden and changed nothing
RefusedForbidden == last'.res = "Forbidden" /\ appointments' = appointments

(* C12: set_status by a doctor who is not the appointment's doctor, and cancel
   by a patient who is not the appointment's patient or by a doctor who is not
   the appointment's doctor, fail with Forbidden and leave the appointment
   unchanged; an admin is never refused with Forbidden. *)
C12_OwnershipForbidden ==
    [][/\ (OnRow("set_status") /\ ForeignDoctor(appointments[last'.id]))
            => RefusedForbidden
       /\ (OnRow("cancel") /\ (\/ ForeignDoctor(appointments[last'.id])
                                \/ ForeignPatient(appointments[last'.id])))
            => RefusedForbidden
       /\ ((OnRow("set_status") \/ OnRow("cancel")) /\ last'.actor \in Admins)
            => last'.res # "Forbidden"]_vars

\* a doctor's user was refused the status change of a PENDING appointment that
\* belongs to another doctor
C12_Witness ==
    /\ last.op = "set_status"
    /\ last.id \in DOMAIN appointments
    /\ last.actor \in DoctorUsers
    /\ doctors[appointments[last.id].doctor_id].user_id # last.actor
    /\ appointments[last.id].status = PENDING
    /\ last.res = "Forbidden"

(* C13: an update of an existing appointment requested by a patient who is not
   that appointment's patient fails with Forbidden and leaves the appointment
   unchanged. *)
C13_ForeignEditForbidden ==
    [][(OnRow("update") /\ ForeignPatient(appointments[last'.id])) => RefusedForbidden]_vars

\* the request just handled is an update, set_status or cancel that names an
\* appointment id no row has
OnMissingId ==
    /\ last'.op \in {"update", "set_status", "cancel"}
    /\ last'.id \notin DOMAIN appointments

(* C14, as claimed: update, set_status and cancel called with an appointment
   id that does not exist fail with NotFound for every actor and leave the
   appointments unchanged. *)
C14_Claimed ==
    [][OnMissingId => (last'.res = "NotFound" /\ appointments' = appointments)]_vars

(* C14, amended: such a call always leaves the appointments unchanged; it fails
   with Forbidden when the actor's role is not admitted to the operation (update:
   patients; set_status: doctors and admins), else with ValidationError when an
   update carries a past date, and with NotFound otherwise. *)
C14_MissingIdFails ==
    [][OnMissingId
       => (/\ appointments' = appointments
           /\ last'.res =
                IF last'.op = "update" /\ last'.actor \notin Patients THEN "Forbidden"
                ELSE IF last'.op = "set_status" /\ last'.actor \in Patients THEN "Forbidden"
                ELSE IF /\ last'.op = "update"
                        /\ HasValue(last'.req.appointment_date)
                        /\ Val(last'.req.appointment_date) < Today
                     THEN "ValidationError"
                ELSE "NotFound")]_vars

\* an admin's set_status on an id that no row of a non-empty table has got NotFound
C14_Witness ==
    /\ last.op = "set_status"
    /\ last.actor \in Admins
    /\ appointments # << >>
    /\ last.id \notin DOMAIN appointments
    /\ last.res = "NotFound"

\* the request just handled is a create for a doctor id that no doctor has, or
\* whose user is not active
CreateForAbsentDoctor ==
    /\ last'.op = "create"
    /\ \/ last'.req.doctor_id \notin DOMAIN doctors
       \/ doctors[last'.req.doctor_id].user_id \notin ActiveUsers

(* C15, as claimed: create for a doctor id that does not exist, or whose user
   is inactive, fails with DoctorNotFound and adds no appointment, whatever
   slot it requests. *)
C15_Claimed ==
    [][CreateForAbsentDoctor
       => (last'.res = "DoctorNotFound" /\ appointments' = appointments)]_vars

(* C15, amended: such a create adds no appointment; it fails with
   ValidationError when the request does not pass the schema (doctor id not
   positive, date in the past, blank slot string) and with DoctorNotFound
   otherwise, whether or not the slot is listed. *)
C15_AbsentDoctorFails ==
    [][CreateForAbsentDoctor
       => (/\ appointments' = appointments
           /\ last'.res =
                IF \/ last'.req.doctor_id <= 0
                   \/ last'.req.appointment_date < Today
                   \/ Strip(last'.req.appointment_time) = << >>
                THEN "ValidationError"
                ELSE "DoctorNotFound")]_vars

\* a create for the doctor whose user is deactivated got DoctorNotFound although
\* the doctor's template lists the slot and nobody holds it
C15_Witness ==
    /\ last.op = "create"
    /\ last.res = "DoctorNotFound"
    /\ last.req.doctor_id \in DOMAIN doctors
    /\ doctors[last.req.doctor_id].user_id \notin ActiveUsers
    /\ Listed(last.req.doctor_id, last.req.appointment_date, last.req.appointment_time)
    /\ ~Held(last.req.doctor_id, last.req.appointment_date, last.req.appointment_time)


\* the request just handled is a schedule update by a doctor's user whose body
\* maps distinct keys to lists of slot strings and has at least one entry
LenientUpdateOfLists ==
    /\ last'.op = "schedule"
    /\ last'.actor \in DoctorUsers
    /\ \E d \in DOMAIN doctors : doctors[d].user_id = last'.actor
    /\ last'.req.entries # << >>
    /\ \A i \in DOMAIN last'.req.entries : last'.req.entries[i].value[1] = "list"
    /\ \A i, j \in DOMAIN last'.req.entries :
          i # j => Lower(last'.req.entries[i].key) # Lower(last'.req.entries[j].key)

\* the input entries whose key lowercases to a weekday name, each mapped to the
\* input's slot strings of the form HH:MM-HH:MM, in input order
WellFormedPart(entries) ==
    LET days == {Lower(entries[i].key) : i \in DOMAIN entries} \cap Range(DayNames)
        at(d) == CHOOSE i \in DOMAIN entries : Lower(entries[i].key) = d
    IN  [d \in days |-> SelectSeq(entries[at(d)].value[2], MatchesTimePattern)]

(* C16: the lenient schedule update never fails because of a bad entry: the
   template stored afterwards consists of exactly the input entries whose key
   lowercases to a weekday name, each mapped to the input's well-formed
   HH:MM-HH:MM slot strings in input order. *)
C16_LenientKeepsWellFormed ==
    [][LenientUpdateOfLists
       => LET d == CHOOSE k \in DOMAIN doctors : doctors[k].user_id = last'.actor IN
          /\ last'.res = "ok"
          /\ doctors'[d].available_timeslots = WellFormedPart(last'.req.entries)]_vars

\* the request just handled registers a doctor under an unused email with a
\* template in which some key is not a weekday name or some slot string is not
\* valid
OnboardingWithBadTemplate ==
    /\ last'.op \in {"register", "create_user"}
    /\ last'.req.email \notin DOMAIN users
    /\ last'.req.user_type = DOCTOR
    /\ HasValue(last'.req.doctor_data)
    /\ LET entries == Val(last'.req.doctor_data) IN
       \E i \in DOMAIN entries :
          \/ Lower(entries[i].key) \notin Range(DayNames)
          \/ \E k \in DOMAIN entries[i].value[2] :
                ValidateAppointmentTime(entries[i].value[2][k]) # ""

(* C17: a doctor registration whose availability template contains a
   malformed slot, or a key that is not a weekday name, fails as a whole with
   ValidationError and creates neither the user nor the doctor profile. *)
C17_StrictOnboarding ==
    [][OnboardingWithBadTemplate
       => (/\ last'.res = "ValidationError"
           /\ users' = users
           /\ doctors' = doctors)]_vars

(* C18: in every reachable state every slot string stored in a doctor's
   template has its start strictly before its end and lies within 06:00-22:00,
   whichever operation wrote it. *)
C18_StoredSlotsInBusinessHours ==
    \A d \in DOMAIN doctors :
        \A day \in DOMAIN doctors[d].available_timeslots :
            \A k \in DOMAIN doctors[d].available_timeslots[day] :
                LET slot == doctors[d].available_timeslots[day][k] IN
                /\ MatchesTimePattern(slot)
                /\ SlotTime(slot, 1) < SlotTime(slot, 2)
                /\ 6 * 60 <= SlotTime(slot, 1)
                /\ SlotTime(slot, 2) <= 22 * 60

(* C19: in every reachable state, also after the doctor edits the schedule,
   the appointment_time of every PENDING or CONFIRMED appointment is a slot
   string listed in its doctor's template under the weekday of its date. *)
C19_ActiveAppointmentsListed ==
    \A i \in DOMAIN appointments :
        appointments[i].status \in {PENDING, CONFIRMED}
            => Listed(appointments[i].doctor_id, appointments[i].appointment_date,
                      appointments[i].appointment_time)


(* C20: in every reachable state an appointment whose status is PENDING has
   empty doctor_notes and prescription. *)
C20_PendingHasNoDoctorText ==
    \A i \in DOMAIN appointments :
        appointments[i].status = PENDING
            => (/\ appointments[i].doctor_notes \in {NULL, ""}
                /\ appointments[i].prescription \in {NULL, ""})


(* C21: a create, update, set_status or cancel call that returns an error
   leaves every stored appointment as it was; in particular an update of date
   and time that is rejected on the second field does not keep the first. *)
C21_ErrorChangesNothing ==
    [][(last'.op \in {"create", "update", "set_status", "cancel"} /\ last'.res # "ok")
       => appointments' = appointments]_vars


\* the slot string is not a valid HH:MM-HH:MM 24-hour interval
Malformed(tm) ==
    \/ ~MatchesTimePattern(tm)
    \/ SlotTime(tm, 1) >= SlotTime(tm, 2)

(* C22: create with a time-slot string that is not a valid HH:MM-HH:MM 24-hour
   interval, such as "10:00-25:00", fails with ValidationError and adds no
   appointment. *)
C22_MalformedSlotRejected ==
    [][(last'.op = "create" /\ Malformed(last'.req.appointment_time))
       => (last'.res = "ValidationError" /\ appointments' = appointments)]_vars


\* the request just handled is a set_status by the appointment's doctor or an
\* admin that asks for CONFIRMED on a PENDING row or COMPLETED on a CONFIRMED one
ForwardStep ==
    /\ OnRow("set_status")
    /\ \/ last'.actor = doctors[appointments[last'.id].doctor_id].user_id
       \/ last'.actor \in Admins
    /\ <<appointments[last'.id].status, last'.req.status>>
          \in {<<PENDING, CONFIRMED>>, <<CONFIRMED, COMPLETED>>}

(* C23: set_status by the owning doctor or an admin from PENDING to CONFIRMED
   and from CONFIRMED to COMPLETED succeeds; afterwards the stored status is
   the requested one, and a non-empty doctor_notes or prescription passed with
   the call is stored on the appointment. *)
C23_ForwardStepsSucceed ==
    [][ForwardStep
       => LET r == last'.req
              new == appointments'[last'.id] IN
          /\ last'.res = "ok"
          /\ new.status = r.status
          /\ (HasValue(r.doctor_notes) /\ Val(r.doctor_notes) # "")
                => new.doctor_notes = Val(r.doctor_notes)
          /\ (HasValue(r.prescription) /\ Val(r.prescription) # "")
                => new.prescription = Val(r.prescription)]_vars

\* a completion that carried a prescription and no notes succeeded on an
\* appointment that keeps the notes written at its confirmation
C23_Witness ==
    /\ last.op = "set_status"
    /\ last.res = "ok"
    /\ last.req.status = COMPLETED
    /\ last.req.doctor_notes = Unset
    /\ last.req.prescription = Some("rx")
    /\ appointments[last.id].status = COMPLETED
    /\ appointments[last.id].doctor_notes = "rest"
    /\ appointments[last.id].prescription = "rx"


\* the request just handled is an update by its patient of a PENDING appointment
\* that carries notes and/or symptoms and no other field
RemarksEdit ==
    /\ OnRow("update")
    /\ last'.actor = appointments[last'.id].patient_id
    /\ appointments[last'.id].status = PENDING
    /\ last'.req.appointment_date = Unset
    /\ last'.req.appointment_time = Unset
    /\ last'.req.status = Unset
    /\ (IsSet(last'.req.notes) \/ IsSet(last'.req.symptoms))

(* C24: an update by the owning patient that changes only notes and/or
   symptoms of a PENDING appointment succeeds without the slot checks being
   run, leaves the appointment's doctor, date, time slot and status unchanged,
   and leaves every other appointment unchanged. *)
C24_RemarksEditKeepsSlot ==
    [][RemarksEdit
       => LET old == appointments[last'.id]
              new == appointments'[last'.id] IN
          /\ last'.res = "ok"
          /\ new.doctor_id = old.doctor_id
          /\ new.appointment_date = old.appointment_date
          /\ new.appointment_time = old.appointment_time
          /\ new.status = old.status
          /\ DOMAIN appointments' = DOMAIN appointments
          /\ \A j \in DOMAIN appointments : j # last'.id => appointments'[j] = appointments[j]]_vars

\* an edit of the notes alone succeeded on an appointment whose slot the
\* doctor's template no longer lists
C24_Witness ==
    /\ last.op = "update"
    /\ last.res = "ok"
    /\ last.req = UpdateRequest(Unset, Unset, Some("n1"), Unset, Unset)
    /\ appointments[last.id].notes = "n1"
    /\ appointments[last.id].status = PENDING
    /\ ~Listed(appointments[last.id].doctor_id, appointments[last.id].appointment_date,
               appointments[last.id].appointment_time)


(* C25: create, update, set_status and cancel leave every doctor's
   availability template unchanged; a schedule update changes only the
   template of the doctor who performs it and leaves every appointment,
   its status included, unchanged. *)
C25_BookingsAndTemplatesApart ==
    [][/\ last'.op \in {"create", "update", "set_status", "cancel"} => doctors' = doctors
       /\ last'.op = "schedule"
            => (/\ appointments' = appointments
                /\ DOMAIN doctors' = DOMAIN doctors
                /\ \A d \in DOMAIN doctors :
                      \/ doctors'[d] = doctors[d]
                      \/ /\ doctors[d].user_id = last'.actor
                         /\ doctors'[d] = [doctors[d] EXCEPT !.available_timeslots =
                                                          doctors'[d].available_timeslots])]_vars

\* the second doctor replaced their template while an appointment of the first
\* doctor is PENDING and the first doctor's template is as it was
C25_Witness ==
    /\ last.op = "schedule"
    /\ last.actor = "u2"
    /\ last.res = "ok"
    /\ doctors[2].available_timeslots # InitDoctors[2].available_timeslots
    /\ doctors[1] = InitDoctors[1]
    /\ \E i \in DOMAIN appointments :
          appointments[i].doctor_id = 1 /\ appointments[i].status = PENDING


(* C26: the two implementations of the patient's edit agree: for every PENDING
   appointment and every edit request of its patient, the API's
   update_appointment and AppointmentService.update_appointment give the same
   outcome and the same resulting appointments, also when the request changes
   date and time together. *)
C26_UpdateImplementationsAgree ==
    [][(/\ OnRow("update")
        /\ last'.actor = appointments[last'.id].patient_id
        /\ appointments[last'.id].status = PENDING)
       => ApiUpdateOutcome(appointments, doctors, last'.id, last'.actor, last'.req)
            = SvcUpdateOutcome(appointments, doctors, last'.id, last'.actor, last'.req)]_vars


(* C27: in every reachable state no two PENDING/CONFIRMED appointments of the
   same doctor on the same date have time intervals that overlap, also when
   the template lists different slot strings whose intervals overlap, such as
   "10:00-11:00" and "10:30-11:30". *)
C27_NoOverlappingActive ==
    \A i, j \in DOMAIN appointments :
        (/\ i # j
         /\ appointments[i].doctor_id = appointments[j].doctor_id
         /\ appointments[i].appointment_date = appointments[j].appointment_date
         /\ appointments[i].status \in ActiveStatuses
         /\ appointments[j].status \in ActiveStatuses)
            => ~IsTimeSlotOverlap(appointments[i].appointment_time,
                                  appointments[j].appointment_time).val


\* the slot strings the comparison ranges over: those of the templates and one
\* that no template lists
SlotStrings == {T1000, T1030, T1200, Padded(T1000)}

(* C28: get_doctor_available_slots(doctor, date) agrees with booking: a slot
   string is in its result iff the doctor's template lists it under the
   weekday of the date and no PENDING/CONFIRMED appointment holds (doctor,
   date, slot), which are the slots that pass create's offering and conflict
   checks; the result keeps the order of the template. *)
C28_AvailableSlotsAgreeWithBooking ==
    (last.op = "available_slots" /\ last.res = "ok")
        => LET doc == last.req.doctor_id
               d == last.req.appointment_date
               listed == AvailableSlots(doctors, doc, d)
               in_result(s) == s \in Range(last.slots)
           IN  /\ \A s \in SlotStrings :
                     /\ in_result(s) <=> (Listed(doc, d, s) /\ ~Held(doc, d, s))
                     /\ in_result(s) <=> SlotError(appointments, doctors, doc, d, s, 0) = "ok"
               /\ last.slots = SelectSeq(listed, in_result)

\* the result for a monday left out the slot held by a CONFIRMED appointment
\* and kept, in template order, a slot that a CANCELLED appointment names
C28_Witness ==
    /\ last.op = "available_slots"
    /\ last.req = [doctor_id |-> 1, appointment_date |-> Today]
    /\ last.slots = <<T1030, Padded(T1000)>>
    /\ \E i, j \in DOMAIN appointments :
          /\ appointments[i].appointment_date = Today
          /\ appointments[i].appointment_time = T1000
          /\ appointments[i].status = CONFIRMED
          /\ appointments[j].appointment_date = Today
          /\ appointments[j].appointment_time = T1030
          /\ appointments[j].status = CANCELLED


\* no key of the entries lowercases to a weekday name
NoWeekdayKey(entries) ==
    \A i \in DOMAIN entries : Lower(entries[i].key) \notin Range(DayNames)

(* C29: a schedule update whose input has no valid weekday key is rejected
   with an error and leaves the doctor's stored template unchanged, whether the
   input comes nested under "available_timeslots", as a flat per-day mapping
   or as a mapping with stray keys. *)
C29_NoWeekdayKeyRejected ==
    [][(last'.op = "schedule" /\ NoWeekdayKey(last'.req.entries))
       => (last'.res # "ok" /\ doctors' = doctors)]_vars


(* C30: a reschedule of a PENDING appointment into a slot and a concurrently
   running create, or another reschedule, for the same doctor, date and slot
   never both succeed, however their conflict checks and commits interleave:
   no reschedule moves an appointment into a slot that another PENDING
   appointment holds. *)
C30_MoveAndCreateNeverBothSucceed ==
    [][(/\ OnRow("update")
        /\ last'.res = "ok"
        /\ appointments[last'.id].status = PENDING
        /\ ~SameSlot(appointments'[last'.id], appointments[last'.id]))
       => ~ \E j \in DOMAIN appointments' :
              /\ j # last'.id
              /\ SameSlot(appointments'[j], appointments'[last'.id])
              /\ appointments'[j].status = PENDING]_vars

=============================================================================
